---------------------------- MODULE Spec2Model ----------------------------
(***************************************************************************)
(* A model of photo-sorter (src/main.py): the directory scan and its       *)
(* extension filter (getFileList), the extraction of one timestamp per     *)
(* path by a pool of worker processes (getTimeShot, getTimeShotList), the  *)
(* stable sort by timestamp and the grouping by threshold (main,           *)
(* sortPhotos), and the writing of the report (exportResult).              *)
(*                                                                         *)
(* Strings of the program are tuples of one-character strings, so that     *)
(* str.endswith and string concatenation are computed and not assumed.     *)
(* A record of the program is the tuple <<path, unix>> of the source.      *)
(* An exception that nothing catches ends the run: pc = "crashed" and exc  *)
(* names it.  The worker processes are taken to inherit the module's       *)
(* globals (fork start method).  The -p/--package option is not modelled.  *)
(***************************************************************************)
EXTENDS Integers, Sequences, FiniteSets, TLC

VARIABLES
    pc,            \* position of main(): scan, extract, collect, cluster, export, done, crashed
    exc,           \* the uncaught exception that ended the run, or "none"
    args,          \* the parsed command line: path, threshold, export
    dirEntries,    \* the files of the scanned directory, in os.walk's order
    fileList,      \* what getFileList returned
    taskqueue,     \* chunk numbers no worker has taken yet
    running,       \* chunk numbers a worker is running
    outqueue,      \* finished chunks on their way to the result handler
    unsorted,      \* IMapIterator._unsorted: chunks that arrived ahead of their turn
    items,         \* IMapIterator._items: chunks ready for next()
    index,         \* IMapIterator._index: the chunk number expected next
    collected,     \* the records sorted() has drawn from the iterator so far
    timeList,      \* the sorted records
    grouped,       \* what sortPhotos returned
    written,       \* report files written: records [path, content]
    failedWrites,  \* paths at which open(path, 'w') failed
    run,           \* 1 in the first run over the file list, 2 in the second
    firstGrouped   \* the first run's cluster list, kept for comparison

vars == <<pc, exc, args, dirEntries, fileList, taskqueue, running, outqueue,
          unsorted, items, index, collected, timeList, grouped, written,
          failedWrites, run, firstGrouped>>

---------------------------------------------------------------------------
(* Bounds of the model *)

MaxFiles == 5
MaxListLen == 4
MaxLen == 3
MaxEpoch == 4
MaxThreshold == 3
FarEpoch == 5

(* Constants of the program *)

PoolSize == 4
ChunkSize == 4
DefaultThreshold == 3
UnreadableUnix == 1
UnparsableUnix == 0

Sep == "/"
ExtLower == <<".", "j", "p", "g">>
ExtUpper == <<".", "J", "P", "G">>
ResultTxt == <<"r", "e", "s", "u", "l", "t", ".", "t", "x", "t">>

---------------------------------------------------------------------------
(* getFileList *)

endswith(s, suffix) ==
    /\ Len(s) >= Len(suffix)
    /\ SubSeq(s, Len(s) - Len(suffix) + 1, Len(s)) = suffix

\* the test of line 84, without its negation
IsJpg(filename) == endswith(filename, ExtUpper) \/ endswith(filename, ExtLower)

\* list.remove(x): drops the first element equal to x
ListRemove(s, x) ==
    LET k == CHOOSE i \in 1..Len(s) :
                 s[i] = x /\ \A j \in 1..(i - 1) : s[j] # x
    IN  SubSeq(s, 1, k - 1) \o SubSeq(s, k + 1, Len(s))

\* the for loop of lines 83-85: the list iterator reads position i and moves
\* on to i + 1 whether or not the body removed an element
RECURSIVE FilterLoop(_, _)
FilterLoop(filenames, i) ==
    IF i > Len(filenames) THEN filenames
    ELSE IF ~IsJpg(filenames[i])
         THEN FilterLoop(ListRemove(filenames, filenames[i]), i + 1)
         ELSE FilterLoop(filenames, i + 1)

\* lines 74-75
WithSep(path) == IF path[Len(path)] # Sep THEN path \o <<Sep>> ELSE path

\* os.walk's third component: the names of the directory's files
WalkFilenames == [i \in 1..Len(dirEntries) |-> dirEntries[i].name]

getFileList(path) ==
    LET filenames == FilterLoop(WalkFilenames, 1)
    IN  [i \in 1..Len(filenames) |-> WithSep(path) \o filenames[i]]

---------------------------------------------------------------------------
(* getTimeShot *)

\* what Image.open(path).getexif().get(306) and strptime find in the file
ContentOf(path) ==
    LET hits == {i \in 1..Len(dirEntries) :
                    WithSep(args.path) \o dirEntries[i].name = path}
    IN  IF hits = {} THEN [kind |-> "missing", epoch |-> 0]
        ELSE dirEntries[CHOOSE i \in hits : TRUE].content

getTimeShot(path) ==
    LET c == ContentOf(path)
        unix == IF c.kind = "notimage" THEN UnreadableUnix
                ELSE IF c.kind = "exif" THEN c.epoch
                ELSE UnparsableUnix
    IN  <<path, unix>>

---------------------------------------------------------------------------
(* Pool(4).imap(getTimeShot, filenames, chunksize=4) *)

NumChunks == (Len(fileList) + ChunkSize - 1) \div ChunkSize

Min(a, b) == IF a <= b THEN a ELSE b

Chunk(i) == SubSeq(fileList, (i - 1) * ChunkSize + 1,
                   Min(i * ChunkSize, Len(fileList)))

mapstar(chunk) == [k \in 1..Len(chunk) |-> getTimeShot(chunk[k])]

\* IMapIterator._set: a chunk that is next in turn goes to _items together with
\* the chunks waiting right behind it; any other chunk waits in _unsorted
RECURSIVE Flush(_, _, _)
Flush(its, uns, idx) ==
    IF \E u \in uns : u.i = idx
    THEN LET u == CHOOSE v \in uns : v.i = idx
         IN  Flush(Append(its, u.obj), uns \ {u}, idx + 1)
    ELSE [items |-> its, unsorted |-> uns, index |-> idx]

\* imap_unordered in place of imap: a chunk is ready as soon as it arrives
IMapSetUnordered(job) ==
    [items |-> Append(items, job.obj), unsorted |-> unsorted, index |-> index + 1]

IMapSet(job) ==
    IF job.i = index
    THEN Flush(Append(items, job.obj), unsorted, index + 1)
    ELSE [items |-> items, unsorted |-> unsorted \cup {job}, index |-> index]

---------------------------------------------------------------------------
(* sorted(timeList, key=itemgetter(1)) *)

\* a stable sort: a record goes behind every record whose key is not greater
InsertStable(s, x) ==
    LET n == Cardinality({i \in 1..Len(s) : s[i][2] <= x[2]})
    IN  SubSeq(s, 1, n) \o <<x>> \o SubSeq(s, n + 1, Len(s))

RECURSIVE sorted(_)
sorted(s) ==
    IF s = <<>> THEN <<>>
    ELSE InsertStable(sorted(SubSeq(s, 1, Len(s) - 1)), s[Len(s)])

---------------------------------------------------------------------------
(* sortPhotos *)

\* line 126 with < for <=
LeqStrict(diffTime, t) == diffTime < t

\* line 126 with the comparison turned round
LeqInverted(diffTime, t) == diffTime >= t

\* line 126
Leq(diffTime, t) == diffTime <= t

\* diffTime <= args.threshold: an int against a str raises TypeError
Compare(diffTime, threshold) ==
    IF threshold.kind = "int"
    THEN (IF Leq(diffTime, threshold.val) THEN "True" ELSE "False")
    ELSE "TypeError"

\* lines 124-129; n counts from 1 where the source counts from 0
RECURSIVE CountLoop(_, _, _, _)
CountLoop(tl, threshold, n, countList) ==
    IF n > Len(tl) - 1 THEN [exc |-> "none", value |-> countList]
    ELSE LET diffTime == tl[n + 1][2] - tl[n][2]
             c == Compare(diffTime, threshold)
         IN  IF c = "TypeError" THEN [exc |-> "TypeError", value |-> countList]
             ELSE IF c = "True"
                  THEN CountLoop(tl, threshold, n + 1,
                           [countList EXCEPT ![Len(countList)] = @ + 1])
                  ELSE CountLoop(tl, threshold, n + 1, Append(countList, 1))

\* lines 132-140: l.popleft() on an empty deque raises IndexError
RECURSIVE BuildGroups(_, _, _, _)
BuildGroups(l, countList, k, photosList) ==
    IF k > Len(countList) THEN [exc |-> "none", value |-> photosList]
    ELSE IF countList[k] > Len(l) THEN [exc |-> "IndexError", value |-> <<>>]
    ELSE BuildGroups(SubSeq(l, countList[k] + 1, Len(l)), countList, k + 1,
                     Append(photosList, [i \in 1..countList[k] |-> l[i][1]]))

sortPhotos(tl, threshold) ==
    LET c == CountLoop(tl, threshold, 1, <<1>>)
    IN  IF c.exc # "none" THEN [exc |-> c.exc, value |-> <<>>]
        ELSE BuildGroups(tl, c.value, 1, <<>>)

---------------------------------------------------------------------------
(* exportResult *)

\* lines 168-171
DefaultReportPath ==
    IF args.path[Len(args.path)] # Sep
    THEN args.path \o <<Sep>> \o ResultTxt
    ELSE args.path \o ResultTxt

---------------------------------------------------------------------------
(* The inputs of a run *)

Digits == <<"1", "2", "3", "4", "5", "6", "7", "8", "9">>

IntArg(n) == [kind |-> "int", val |-> n]
StrArg(n) == [kind |-> "str", val |-> n]
NoPath == [given |-> FALSE, value |-> <<>>]
SomePath(p) == [given |-> TRUE, value |-> p]

Exif(t) == [kind |-> "exif", epoch |-> t]
NoExif == [kind |-> "noexif", epoch |-> 0]
NotImage == [kind |-> "notimage", epoch |-> 0]

\* the i-th file of a listing: its name is its position followed by ext
Entry(i, ext, content) == [name |-> <<Digits[i]>> \o ext, content |-> content]

\* the kinds of file a directory of the whole-program specification holds
FileKinds ==
    { [ext |-> ExtLower, content |-> Exif(FarEpoch)],
      [ext |-> ExtUpper, content |-> NoExif],
      [ext |-> <<".", "t", "x", "t">>, content |-> NotImage] }

Listings ==
    UNION { { [i \in 1..n |-> Entry(i, k[i].ext, k[i].content)] :
                k \in [1..n -> FileKinds] } : n \in 0..MaxFiles }

\* file names for the scan alone: extensions near and far from .jpg
ScanNames ==
    { <<"a">> \o ExtLower, <<"b">> \o ExtUpper, <<"c", ".", "t", "x", "t">>,
      <<"d", ".", "p", "n", "g">>, <<"e", ".", "J", "p", "g">>,
      <<"j", "p", "g">>, <<"g", ".", "j", "p", "g", ".", "b", "a", "k">> }

ScanListings ==
    UNION { { [i \in 1..n |-> [name |-> f[i], content |-> NotImage]] :
                f \in { g \in [1..n -> ScanNames] :
                          \A i, j \in 1..n : i # j => g[i] # g[j] } } :
            n \in 0..MaxListLen }

\* contents for the grouping alone: both failures and every epoch to MaxEpoch
SortContents == {NotImage, NoExif} \cup { Exif(t) : t \in 0..MaxEpoch }

SortListings ==
    UNION { { [i \in 1..n |-> Entry(i, ExtLower, c[i])] :
                c \in [1..n -> SortContents] } : n \in 0..MaxLen }

---------------------------------------------------------------------------
(* The run: main() and the pool's processes *)

\* lines 194 and 73-90
GetFileList ==
    /\ pc = "scan"
    /\ fileList' = getFileList(args.path)
    /\ pc' = "extract"
    /\ UNCHANGED <<exc, args, dirEntries, taskqueue, running, outqueue,
                   unsorted, items, index, collected, timeList, grouped,
                   written, failedWrites, run, firstGrouped>>

\* lines 195 and 114-117: the chunks are queued and the iterator is returned
GetTimeShotList ==
    /\ pc = "extract"
    /\ taskqueue' = [i \in 1..NumChunks |-> i]
    /\ running' = {}
    /\ outqueue' = <<>>
    /\ unsorted' = {}
    /\ items' = <<>>
    /\ index' = 1
    /\ collected' = <<>>
    /\ pc' = "collect"
    /\ UNCHANGED <<exc, args, dirEntries, fileList, timeList, grouped,
                   written, failedWrites, run, firstGrouped>>

\* an idle worker takes the next chunk
WorkerGet ==
    /\ taskqueue # <<>>
    /\ Cardinality(running) < PoolSize
    /\ running' = running \cup {Head(taskqueue)}
    /\ taskqueue' = Tail(taskqueue)
    /\ UNCHANGED <<pc, exc, args, dirEntries, fileList, outqueue, unsorted,
                   items, index, collected, timeList, grouped, written,
                   failedWrites, run, firstGrouped>>

\* a worker finishes its chunk: getTimeShot on each path, no exception leaves it
WorkerRun ==
    \E i \in running :
        /\ running' = running \ {i}
        /\ outqueue' = Append(outqueue, [i |-> i, obj |-> mapstar(Chunk(i))])
        /\ UNCHANGED <<pc, exc, args, dirEntries, fileList, taskqueue,
                       unsorted, items, index, collected, timeList, grouped,
                       written, failedWrites, run, firstGrouped>>

\* the pool's result handler hands a finished chunk to the iterator
ResultHandler ==
    /\ outqueue # <<>>
    /\ LET r == IMapSet(Head(outqueue))
       IN  /\ items' = r.items
           /\ unsorted' = r.unsorted
           /\ index' = r.index
    /\ outqueue' = Tail(outqueue)
    /\ UNCHANGED <<pc, exc, args, dirEntries, fileList, taskqueue, running,
                   collected, timeList, grouped, written, failedWrites, run,
                   firstGrouped>>

\* line 197, sorted() drawing from the iterator: the records of the next chunk
MainNextChunk ==
    /\ pc = "collect"
    /\ items # <<>>
    /\ collected' = collected \o Head(items)
    /\ items' = Tail(items)
    /\ UNCHANGED <<pc, exc, args, dirEntries, fileList, taskqueue, running,
                   outqueue, unsorted, index, timeList, grouped, written,
                   failedWrites, run, firstGrouped>>

\* next() taking nothing ready for the end of the results
IteratorExhaustedEarly == items = <<>>

\* IMapIterator.next raises StopIteration: nothing is ready and every chunk
\* has been handed over
IteratorExhausted == items = <<>> /\ index = NumChunks + 1

\* line 197: the iterator is exhausted and sorted() returns
MainSorted ==
    /\ pc = "collect"
    /\ IteratorExhausted
    /\ timeList' = sorted(collected)
    /\ pc' = "cluster"
    /\ UNCHANGED <<exc, args, dirEntries, fileList, taskqueue, running,
                   outqueue, unsorted, items, index, collected, grouped,
                   written, failedWrites, run, firstGrouped>>

\* line 199
MainSortPhotos ==
    /\ pc = "cluster"
    /\ LET r == sortPhotos(timeList, args.threshold)
       IN  IF r.exc = "none"
           THEN /\ grouped' = r.value
                /\ pc' = "export"
                /\ exc' = exc
           ELSE /\ grouped' = grouped
                /\ pc' = "crashed"
                /\ exc' = r.exc
    /\ UNCHANGED <<args, dirEntries, fileList, taskqueue, running, outqueue,
                   unsorted, items, index, collected, timeList, written,
                   failedWrites, run, firstGrouped>>

\* writeResults(path, grouped) when open(path, 'w') succeeds
WriteResults(path) ==
    { w \in written : w.path # path } \cup {[path |-> path, content |-> grouped]}

\* lines 201 and 167-172: no -e
ExportDefault ==
    /\ pc = "export"
    /\ ~args.export.given
    /\ \E ok \in BOOLEAN :
         IF ok
         THEN /\ written' = WriteResults(DefaultReportPath)
              /\ UNCHANGED <<failedWrites, exc>>
              /\ pc' = "done"
         ELSE /\ failedWrites' = failedWrites \cup {DefaultReportPath}
              /\ UNCHANGED written
              /\ exc' = "OSError"
              /\ pc' = "crashed"
    /\ UNCHANGED <<args, dirEntries, fileList, taskqueue, running, outqueue,
                   unsorted, items, index, collected, timeList, grouped, run,
                   firstGrouped>>

\* lines 201 and 173-183: with -e.  In the except branch line 179 reads the
\* local name path, which nothing has bound: UnboundLocalError, and lines
\* 180-183 are never run
ExportGiven ==
    /\ pc = "export"
    /\ args.export.given
    /\ \E ok \in BOOLEAN :
         IF ok
         THEN /\ written' = WriteResults(args.export.value)
              /\ UNCHANGED <<failedWrites, exc>>
              /\ pc' = "done"
         ELSE /\ failedWrites' = failedWrites \cup {args.export.value}
              /\ UNCHANGED written
              /\ exc' = "UnboundLocalError"
              /\ pc' = "crashed"
    /\ UNCHANGED <<args, dirEntries, fileList, taskqueue, running, outqueue,
                   unsorted, items, index, collected, timeList, grouped, run,
                   firstGrouped>>

\* the program is run once more over the same file list, with the files and
\* the command line unchanged
Rerun ==
    /\ pc = "done"
    /\ run = 1
    /\ run' = 2
    /\ firstGrouped' = grouped
    /\ failedWrites' = {}
    /\ pc' = "extract"
    /\ UNCHANGED <<exc, args, dirEntries, fileList, taskqueue, running,
                   outqueue, unsorted, items, index, collected, timeList,
                   grouped, written>>

---------------------------------------------------------------------------
(* Specifications *)

\* the pool before getTimeShotList has made it
NoPool ==
    /\ taskqueue = <<>>
    /\ running = {}
    /\ outqueue = <<>>
    /\ unsorted = {}
    /\ items = <<>>
    /\ index = 1
    /\ collected = <<>>

Fresh ==
    /\ exc = "none"
    /\ timeList = <<>>
    /\ grouped = <<>>
    /\ written = {}
    /\ failedWrites = {}
    /\ run = 1
    /\ firstGrouped = <<>>

\* the whole program: a command line and a directory
Init ==
    /\ pc = "scan"
    /\ args \in [path : {<<"d">>},
                 threshold : {IntArg(DefaultThreshold), StrArg(DefaultThreshold)},
                 export : {NoPath, SomePath(<<"o">>)}]
    /\ dirEntries \in Listings
    /\ fileList = <<>>
    /\ NoPool
    /\ Fresh

Next ==
    \/ GetFileList
    \/ GetTimeShotList
    \/ WorkerGet
    \/ WorkerRun
    \/ ResultHandler
    \/ MainNextChunk
    \/ MainSorted
    \/ MainSortPhotos
    \/ ExportDefault
    \/ ExportGiven
    \/ Rerun

Spec == Init /\ [][Next]_vars

\* getFileList alone, over names of many shapes and both forms of the path
InitScan ==
    /\ pc = "scan"
    /\ args \in [path : {<<"d">>, <<"d", Sep>>},
                 threshold : {IntArg(DefaultThreshold)},
                 export : {NoPath}]
    /\ dirEntries \in ScanListings
    /\ fileList = <<>>
    /\ NoPool
    /\ Fresh

NextScan == GetFileList

SpecScan == InitScan /\ [][NextScan]_vars

\* sortPhotos alone: main() at line 199, over the sorted records of any
\* files and with args.threshold any integer up to MaxThreshold
InitSort ==
    /\ pc = "cluster"
    /\ args \in [path : {<<"d">>},
                 threshold : { IntArg(t) : t \in 0..MaxThreshold },
                 export : {NoPath}]
    /\ dirEntries \in SortListings
    /\ fileList = [i \in 1..Len(dirEntries) |->
                      WithSep(args.path) \o dirEntries[i].name]
    /\ taskqueue = <<>>
    /\ running = {}
    /\ outqueue = <<>>
    /\ unsorted = {}
    /\ items = <<>>
    /\ index = NumChunks + 1
    /\ collected = mapstar(fileList)
    /\ timeList = sorted(collected)
    /\ exc = "none"
    /\ grouped = <<>>
    /\ written = {}
    /\ failedWrites = {}
    /\ run = 1
    /\ firstGrouped = <<>>

NextSort == MainSortPhotos

SpecSort == InitSort /\ [][NextSort]_vars

---------------------------------------------------------------------------
(* Properties *)

RECURSIVE Flatten(_)
Flatten(groups) ==
    IF groups = <<>> THEN <<>> ELSE Head(groups) \o Flatten(Tail(groups))

Paths(tl) == [i \in 1..Len(tl) |-> tl[i][1]]

Stamps(tl) == [i \in 1..Len(tl) |-> tl[i][2]]

\* the number of paths in the first g groups
RECURSIVE PrefixLen(_, _)
PrefixLen(groups, g) ==
    IF g = 0 THEN 0 ELSE PrefixLen(groups, g - 1) + Len(groups[g])

\* the k-th record of timeList is in group g, at the place its rank gives it
Holds(g, k) ==
    /\ g \in 1..Len(grouped)
    /\ PrefixLen(grouped, g - 1) < k
    /\ k <= PrefixLen(grouped, g)
    /\ grouped[g][k - PrefixLen(grouped, g - 1)] = timeList[k][1]

SortReturned == pc = "export"
SortEnded == pc \in {"export", "crashed"}

\* C1: for every sorted list of records and every threshold, sortPhotos
\* returns groups whose concatenation is the list's sequence of paths, and no
\* group is empty.
C1_Partition ==
    SortEnded =>
        /\ SortReturned
        /\ Flatten(grouped) = Paths(timeList)
        /\ \A g \in 1..Len(grouped) : grouped[g] # <<>>

\* The same on the inputs on which sortPhotos returns: the non-empty lists.
C1_PartitionNonEmpty ==
    (SortEnded /\ timeList # <<>>) =>
        /\ SortReturned
        /\ Flatten(grouped) = Paths(timeList)
        /\ \A g \in 1..Len(grouped) : grouped[g] # <<>>

\* C2: on a sorted non-empty input, two adjacent records are in the same
\* group exactly when the difference of their timestamps is <= threshold; when
\* it is greater, the later record is the first of the next group.
C2_InclusiveThreshold ==
    (SortEnded /\ timeList # <<>>) =>
        /\ SortReturned
        /\ Holds(1, 1)
        /\ \A n \in 1..(Len(timeList) - 1) :
             IF timeList[n + 1][2] - timeList[n][2] <= args.threshold.val
             THEN \E g \in 1..Len(grouped) : Holds(g, n) /\ Holds(g, n + 1)
             ELSE \E g \in 1..(Len(grouped) - 1) :
                      /\ Holds(g, n)
                      /\ Holds(g + 1, n + 1)
                      /\ PrefixLen(grouped, g) = n

\* a gap equal to the threshold and a gap of threshold + 1 in one input
C2_Witness ==
    /\ SortReturned
    /\ args.threshold.val = 1
    /\ Stamps(timeList) = <<0, 1, 3>>
    /\ Len(grouped) = 2
    /\ Len(grouped[1]) = 2

\* C3: when the set of input paths is empty, the run produces an empty
\* cluster list and ends without an error.
C3_EmptyInput ==
    (pc # "scan" /\ fileList = <<>>) =>
        /\ pc # "crashed"
        /\ pc \in {"export", "done"} => grouped = <<>>

Failed(k) == ContentOf(timeList[k][1]).kind \in {"notimage", "noexif"}
ZeroEpoch(k) == ContentOf(timeList[k][1]) = Exif(0)

\* C4: for every threshold >= 0, any two records whose extraction failed, and
\* any such record and a record of epoch 0, differ by 0 in timestamp, and all
\* of them are in the first group.
C4_SentinelsTogether ==
    LET S == {k \in 1..Len(timeList) : Failed(k) \/ ZeroEpoch(k)}
    IN  (SortEnded /\ \E k \in S : Failed(k)) =>
            /\ SortReturned
            /\ \A i, j \in S : timeList[i][2] - timeList[j][2] = 0
            /\ \A k \in S : Holds(1, k)

ExtractionFails(path) == ContentOf(path).kind # "exif"

\* C5: whatever the order in which the workers finish and whichever paths
\* fail, when sorting starts the collected results hold exactly one record for
\* each input path, a failing path's record being a sentinel, and what is
\* sorted is all of them.
C5_AllCollected ==
    pc = "cluster" =>
        /\ Len(collected) = Len(fileList)
        /\ \A i \in 1..Len(fileList) :
             /\ Cardinality({k \in 1..Len(collected) :
                                collected[k][1] = fileList[i]}) = 1
             /\ ExtractionFails(fileList[i]) =>
                  \E k \in 1..Len(collected) :
                      /\ collected[k][1] = fileList[i]
                      /\ collected[k][2] \in {UnparsableUnix, UnreadableUnix}
        /\ Len(timeList) = Len(collected)
        /\ \A k \in 1..Len(collected) :
             \E m \in 1..Len(timeList) : timeList[m] = collected[k]

\* two chunks, paths that fail and paths that do not
C5_Witness ==
    /\ pc = "cluster"
    /\ NumChunks = 2
    /\ \E i \in 1..Len(fileList) : ExtractionFails(fileList[i])
    /\ \E i \in 1..Len(fileList) : ~ExtractionFails(fileList[i])
    /\ ExtractionFails(fileList[Len(fileList)])

\* C6: when -e is given and writing to it fails, the report is written to
\* result.txt in the scanned directory and the run goes on, unless writing
\* there fails too.
C6_Fallback ==
    (/\ args.export.given
     /\ args.export.value \in failedWrites
     /\ DefaultReportPath \notin failedWrites) =>
        /\ pc # "crashed"
        /\ \E w \in written : w.path = DefaultReportPath /\ w.content = grouped

\* C7: with -t N and two or more images, the images are grouped as with the
\* integer threshold N, without error.
C7_ThresholdOption ==
    (/\ args.threshold.kind = "str"
     /\ Len(fileList) >= 2
     /\ pc \in {"export", "done", "crashed"}) =>
        /\ exc # "TypeError"
        /\ pc \in {"export", "done"} =>
             grouped = sortPhotos(timeList, IntArg(args.threshold.val)).value

\* C8: for the same sorted input, a threshold that is not smaller gives a
\* number of groups that is not greater.
C8_Monotone ==
    SortReturned =>
        \A t2 \in args.threshold.val..MaxThreshold :
            LET r == sortPhotos(timeList, IntArg(t2))
            IN  r.exc = "none" /\ Len(r.value) <= Len(grouped)

\* a greater threshold that gives fewer groups
C8_Witness ==
    /\ SortReturned
    /\ Len(grouped) = 3
    /\ \E t2 \in args.threshold.val..MaxThreshold :
           Len(sortPhotos(timeList, IntArg(t2)).value) = 1

PlaceInFileList(path) == CHOOSE i \in 1..Len(fileList) : fileList[i] = path

\* C9: a second run over the same paths, files and threshold gives the
\* cluster list of the first, whatever the order in which the workers finish;
\* records of equal timestamp are in the order of the path list.
C9_SameClusters ==
    /\ (run = 2 /\ pc \in {"export", "done"}) => grouped = firstGrouped
    /\ pc \in {"cluster", "export", "done"} =>
         \A i, j \in 1..Len(timeList) :
             (i < j /\ timeList[i][2] = timeList[j][2]) =>
                 PlaceInFileList(timeList[i][1]) < PlaceInFileList(timeList[j][1])

\* a second run ended over two chunks holding records of equal timestamp, in
\* more than one group
C9_Witness ==
    /\ run = 2
    /\ pc = "done"
    /\ NumChunks = 2
    /\ Len(grouped) = 2
    /\ timeList[1][2] = timeList[Len(timeList) - 1][2]
    /\ PlaceInFileList(timeList[1][1]) = 2
    /\ PlaceInFileList(timeList[Len(timeList) - 1][1]) = Len(fileList)

HasJpgExtension(name) ==
    /\ Len(name) >= 4
    /\ <<name[Len(name) - 3], name[Len(name) - 2], name[Len(name) - 1],
         name[Len(name)]>> \in {ExtLower, ExtUpper}

\* C10: the list getFileList returns holds exactly the files whose name ends
\* in .jpg or .JPG.
C10_ExactlyJpg ==
    pc = "extract" =>
        { fileList[i] : i \in 1..Len(fileList) } =
        { WithSep(args.path) \o dirEntries[i].name :
            i \in { k \in 1..Len(dirEntries) :
                      HasJpgExtension(dirEntries[k].name) } }

\* The half of C10 that holds: no file that ends in .jpg or .JPG is left out.
C10_EveryJpgIncluded ==
    pc = "extract" =>
        \A k \in 1..Len(dirEntries) :
            HasJpgExtension(dirEntries[k].name) =>
                \E i \in 1..Len(fileList) :
                    fileList[i] = WithSep(args.path) \o dirEntries[k].name

===========================================================================
